---- MODULE Spec2Model ----
(***************************************************************************)
(* Model of the Pixelblaze LED client: the one-shot CLI                    *)
(* (pixelblaze_control.py) and the persistent stdin/stdout loop            *)
(* (pixelblaze_controller.py).  Text is modelled as sequences of           *)
(* one-character strings, bytes as integers 0..255, Python ints as         *)
(* sign + decimal digits (arbitrary precision), Python floats that come    *)
(* out of x/255 and x/100.0 as the exact reduced ratio num/den.            *)
(***************************************************************************)
EXTENDS Integers, Sequences, FiniteSets, TLC

\* ---------------------------------------------------------------- bounds
\* lines the persistent loop reads from stdin in one run
MaxLines == 3
\* recv() calls of one handshake
MaxChunks == 3
\* longest payload handed to the frame encoder in EncSpec
MaxPayload == 130

\* the largest brightness argument of the pixel lines checked on their own
MaxBrightness == 100

\* ------------------------------------------------------------ characters
\* position i holds the character with code 31 + i (the backslash and backtick slots hold placeholders)
Ascii95 == <<" ","!","\"","#","$","%","&","'","(",")","*","+",",","-",".","/","0","1","2","3","4","5","6","7","8","9",":",";","<","=",">","?","@","A","B","C","D","E","F","G","H","I","J","K","L","M","N","O","P","Q","R","S","T","U","V","W","X","Y","Z","[","<backslash>","]","^","_","<backtick>","a","b","c","d","e","f","g","h","i","j","k","l","m","n","o","p","q","r","s","t","u","v","w","x","y","z","{","|","}","~">>

\* code point of a printable ASCII character
Ord(c) == 31 + (CHOOSE i \in 1..95 : Ascii95[i] = c)

\* str.encode(utf-8) on ASCII text
encode(s) == [i \in 1..Len(s) |-> Ord(s[i])]

IsUpper(c) == Ord(c) >= 65 /\ Ord(c) <= 90

\* str.lower()
lower(s) == [i \in 1..Len(s) |-> IF IsUpper(s[i]) THEN Ascii95[Ord(s[i]) - 31 + 32] ELSE s[i]]

IsSpace(c) == c \in {" ", "\t", "\n", "\r"}

RECURSIVE lstrip(_)
lstrip(s) == IF s # <<>> /\ IsSpace(Head(s)) THEN lstrip(Tail(s)) ELSE s

RECURSIVE rstrip(_)
rstrip(s) == IF s # <<>> /\ IsSpace(s[Len(s)]) THEN rstrip(SubSeq(s, 1, Len(s) - 1)) ELSE s

\* str.strip()
strip(s) == rstrip(lstrip(s))

\* length of the leading run of non-whitespace characters
WordLen(s) == IF \E i \in 1..Len(s) : IsSpace(s[i])
              THEN (CHOOSE i \in 1..Len(s) : IsSpace(s[i]) /\ \A j \in 1..(i - 1) : ~IsSpace(s[j])) - 1
              ELSE Len(s)

\* str.split() with no separator: the whitespace-separated tokens
RECURSIVE split(_)
split(s) ==
    IF s = <<>> THEN <<>>
    ELSE IF IsSpace(Head(s)) THEN split(Tail(s))
    ELSE <<SubSeq(s, 1, WordLen(s))>> \o split(SubSeq(s, WordLen(s) + 1, Len(s)))

\* ------------------------------------------------------- Python numbers
DigitChars == <<"0","1","2","3","4","5","6","7","8","9">>

IsDigit(c) == \E i \in 1..10 : DigitChars[i] = c

DigitVal(c) == (CHOOSE i \in 1..10 : DigitChars[i] = c) - 1

PyInt(neg, digs) == [t |-> "int", neg |-> neg, digs |-> digs, num |-> 0, den |-> 1]

PyFloat(num, den) == [t |-> "float", neg |-> FALSE, digs |-> <<>>, num |-> num, den |-> den]

\* the token without its optional sign
IntBody(tok) == IF tok # <<>> /\ Head(tok) \in {"+", "-"} THEN Tail(tok) ELSE tok

\* int(tok) / float(tok) accept the token (otherwise ValueError)
IsIntLiteral(tok) == IntBody(tok) # <<>> /\ \A i \in 1..Len(IntBody(tok)) : IsDigit(IntBody(tok)[i])

RECURSIVE StripZeros(_)
StripZeros(d) == IF Len(d) > 1 /\ Head(d) = 0 THEN StripZeros(Tail(d)) ELSE d

\* int(tok) for an accepted token
int(tok) ==
    LET digs == StripZeros([i \in 1..Len(IntBody(tok)) |-> DigitVal(IntBody(tok)[i])])
    IN PyInt(Head(tok) = "-" /\ digs # <<0>>, digs)

RECURSIVE DigitsValue(_)
DigitsValue(d) == IF d = <<>> THEN 0 ELSE DigitsValue(SubSeq(d, 1, Len(d) - 1)) * 10 + d[Len(d)]

\* the numeric value of a Python int
IntValue(v) == IF v.neg THEN 0 - DigitsValue(v.digs) ELSE DigitsValue(v.digs)

RECURSIVE NatDigits(_)
NatDigits(n) == IF n < 10 THEN <<n>> ELSE NatDigits(n \div 10) \o <<n % 10>>

\* an integer literal of the source
Lit(n) == PyInt(FALSE, NatDigits(n))

\* str(int): decimal text
IntRepr(v) == (IF v.neg THEN <<"-">> ELSE <<>>) \o [i \in 1..Len(v.digs) |-> DigitChars[v.digs[i] + 1]]

\* repr of the float h / 100 for a natural h: the integer part, the point, then the two decimals
\* without a trailing zero (the shortest text that reads back as the same double)
Hundredths(h) ==
    LET whole == NatDigits(h \div 100)
        f == h % 100
    IN [i \in 1..Len(whole) |-> DigitChars[whole[i] + 1]] \o <<".">> \o
       (IF f % 10 = 0 THEN <<DigitChars[(f \div 10) + 1]>>
        ELSE <<DigitChars[(f \div 10) + 1], DigitChars[(f % 10) + 1]>>)

\* repr(float) of the ratios the modelled inputs produce (shortest round-trip text of the IEEE double)
FloatRepr(v) ==
    CASE v.num = 0 -> <<"0",".","0">>
      [] v.num = v.den -> <<"1",".","0">>
      [] v.den = 255 /\ v.num = 1 -> <<"0",".","0","0","3","9","2","1","5","6","8","6","2","7","4","5","0","9","8">>
      [] v.den = 255 /\ v.num = 128 -> <<"0",".","5","0","1","9","6","0","7","8","4","3","1","3","7","2","5","5">>
      [] v.den = 17 /\ v.num = 20 -> <<"1",".","1","7","6","4","7","0","5","8","8","2","3","5","2","9","4","2">>
      [] v.den = 255 /\ v.num = -1 -> <<"-","0",".","0","0","3","9","2","1","5","6","8","6","2","7","4","5","0","9","8">>
      [] v.den = 2 /\ v.num = 1 -> <<"0",".","5">>
      [] v.den = 2 /\ v.num = 3 -> <<"1",".","5">>
      [] v.den \in {4, 5, 10, 20, 25, 50, 100} /\ v.num > 0 -> Hundredths(v.num * (100 \div v.den))

\* ------------------------------------------------------------------ JSON
KeyChars(k) ==
    CASE k = "mode" -> <<"m","o","d","e">>
      [] k = "ledIndex" -> <<"l","e","d","I","n","d","e","x">>
      [] k = "r" -> <<"r">>
      [] k = "g" -> <<"g">>
      [] k = "b" -> <<"b">>

ValueRepr(v) == IF v.t = "int" THEN IntRepr(v) ELSE FloatRepr(v)

\* "key": value
Item(p) == <<"\"">> \o KeyChars(p.k) \o <<"\"", ":", " ">> \o ValueRepr(p.v)

RECURSIVE Items(_)
Items(kw) == IF kw = <<>> THEN <<>>
             ELSE IF Len(kw) = 1 THEN Item(kw[1])
             ELSE Item(kw[1]) \o <<",", " ">> \o Items(Tail(kw))

\* json.dumps({"setVars": kwargs})
dumps(kw) == <<"{","\"","s","e","t","V","a","r","s","\"",":"," ","{">> \o Items(kw) \o <<"}", "}">>

\* ------------------------------------------------------- frame encoder
RECURSIVE BitOr(_, _)
BitOr(a, b) == IF a = 0 THEN b ELSE IF b = 0 THEN a
               ELSE (IF a % 2 = 1 \/ b % 2 = 1 THEN 1 ELSE 0) + 2 * BitOr(a \div 2, b \div 2)

RECURSIVE BitXor(_, _)
BitXor(a, b) == IF a = 0 THEN b ELSE IF b = 0 THEN a
                ELSE (IF a % 2 # b % 2 THEN 1 ELSE 0) + 2 * BitXor(a \div 2, b \div 2)

MaskKey == <<18, 52, 86, 120>>

\* the second header byte, before bytearray() range-checks it
LenByte(data) == BitOr(128, Len(data))

\* bytearray([...]) raises ValueError for an element outside range(0, 256)
HeaderFits(data) == LenByte(data) <= 255

header(data) == <<129, LenByte(data)>> \o MaskKey

\* the mask applied with the key index off by one
masked_shifted(data) == [i \in 1..Len(data) |-> BitXor(data[i], MaskKey[(i % 4) + 1])]

masked(data) == [i \in 1..Len(data) |-> BitXor(data[i], MaskKey[((i - 1) % 4) + 1])]

\* the bytes send_vars hands to sock.send
FrameBytes(data) == header(data) \o masked(data)

\* ---------------------------------------------------------------- state
VARIABLES variant, argv, pc, sock, response, recvs, cmd, events, status, exc, enc

vars == <<variant, argv, pc, sock, response, recvs, cmd, events, status, exc, enc>>

\* ------------------------------------------------------- words and inputs
W_off == <<"o","f","f">>

W_white == <<"w","h","i","t","e">>

W_all == <<"a","l","l">>

W_led == <<"l","e","d">>

W_blue == <<"b","l","u","e">>

W_red == <<"r","e","d">>

W_green == <<"g","r","e","e","n">>

W_pixel == <<"p","i","x","e","l">>

W_quit == <<"q","u","i","t">>

W_foo == <<"f","o","o">>

W_OFF == <<"O","F","F">>

Prog == <<"p","r","o","g">>

READY == <<"R","E","A","D","Y">>

OK == <<"O","K">>

T_off == <<"L","E","D","s"," ","O","F","F">>

T_white == <<"A","l","l"," ","L","E","D","s"," ","W","H","I","T","E">>

T_all == <<"A","l","l"," ","L","E","D","s"," ","R","G","B","(">>

T_led == <<"L","E","D"," ">>

T_rgb == <<" ","="," ","R","G","B","(">>

T_blue == <<"B","L","U","E"," ","a","t"," ","i","n","d","e","x"," ","0">>

T_red == <<"R","E","D"," ","a","t"," ","i","n","d","e","x"," ","2","5","5">>

T_green == <<"G","R","E","E","N"," ","a","t"," ","i","n","d","e","x"," ">>

DOC == <<"U","s","a","g","e",":">>

\* n copies of the character c
Rep(c, n) == [i \in 1..n |-> c]

RECURSIVE Sp(_)
\* the tokens joined by single spaces
Sp(toks) == IF Len(toks) = 1 THEN toks[1] ELSE toks[1] \o <<" ">> \o Sp(Tail(toks))

\* sys.argv of the one-shot runs
Argvs == {
    <<Prog>>,
    <<Prog, W_off>>, <<Prog, W_OFF>>, <<Prog, W_white>>, <<Prog, W_blue>>, <<Prog, W_red>>,
    <<Prog, W_all, <<"2","5","5">>, <<"0">>, <<"1","2","8">>>>,
    <<Prog, W_led, <<"3">>, <<"1">>, <<"1">>, <<"1">>>>,
    <<Prog, W_green, <<"1","0">>>>,
    <<Prog, W_green, <<"0","0","7">>>>,
    <<Prog, W_pixel, <<"1","0">>>>,
    <<Prog, W_pixel, <<"1","0">>, <<"5","0">>>>,
    <<Prog, W_foo>>,
    <<Prog, W_off, <<"1">>>>,
    <<Prog, W_all, <<"1">>, <<"1">>>>,
    <<Prog, W_green>>,
    <<Prog, W_green, <<"x">>>>,
    <<Prog, W_all, <<"x">>, <<"0">>, <<"0">>>>,
    <<Prog, W_led, <<"1">>, <<"1">>, <<"1">>, <<"y">>>>,
    <<Prog, W_all, <<"3","0","0">>, <<"0">>, <<"0">>>>,
    <<Prog, W_all, <<"-","1">>, <<"0">>, <<"0">>>>,
    <<Prog, W_green, <<"-","1">>>>,
    <<Prog, W_led, Rep("9", 9), <<"1">>, <<"1">>, <<"1">>>>,
    <<Prog, W_led, Rep("9", 10), <<"1">>, <<"1">>, <<"1">>>>,
    <<Prog, W_led, Rep("9", 12), <<"1">>, <<"1">>, <<"1">>>>,
    <<Prog, W_led, Rep("9", 140), <<"1">>, <<"1">>, <<"1">>>> }

\* lines on the stdin of the persistent runs
Lines == {
    W_off, W_white, W_blue, W_red, W_quit, W_foo,
    <<" ">> \o W_green \o <<" ", " ", "1", "0", "\t">>,
    Sp(<<W_pixel, <<"1","0">>>>),
    Sp(<<W_pixel, <<"1","0">>, <<"5","0">>>>),
    Sp(<<W_all, <<"2","5","5">>, <<"0">>, <<"1","2","8">>>>),
    Sp(<<W_led, <<"3">>, <<"1">>, <<"1">>, <<"1">>>>),
    <<>>, <<" ", "\t">>,
    Sp(<<W_green, <<"x">>>>),
    Sp(<<W_pixel, <<"3">>, <<"y">>>>),
    Sp(<<W_pixel, <<"3">>, <<"1","5","0">>>>),
    Sp(<<W_off, <<"1">>>>),
    Sp(<<W_pixel, <<"1">>, <<"5","0">>, <<"9">>>>),
    Sp(<<W_green, Rep("9", 192)>>) }

\* chunks one sock.recv(1024) can return during the handshake (bytes)
Chunks == {
    <<>>,
    <<49, 48, 49>>,
    <<49, 48>>,
    <<49>>,
    <<52, 48, 52>>,
    <<13, 10>>,
    <<13, 10, 13, 10>>,
    <<13, 10, 13, 10, 49, 48, 49>> }

\* b"\r\n\r\n"
Terminator == <<13, 10, 13, 10>>

\* b"101"
Status101 == <<49, 48, 49>>

\* pat in s, for byte strings
Contains(s, pat) == \E i \in 1..(Len(s) - Len(pat) + 1) : SubSeq(s, i, i + Len(pat) - 1) = pat

\* ---------------------------------------------------------------- events
\* what the process does to the outside: a line read from stdin, bytes handed to sock.send,
\* time.sleep, print, sock.close
Ev(e, rec, bytes, ms, text) == [e |-> e, rec |-> rec, bytes |-> bytes, ms |-> ms, text |-> text]

EvRequest == Ev("request", <<>>, <<>>, 0, <<>>)

EvFrame(kw) == Ev("frame", kw, FrameBytes(encode(dumps(kw))), 0, <<>>)

EvSleep(ms) == Ev("sleep", <<>>, <<>>, ms, <<>>)

EvPrint(text) == Ev("print", <<>>, <<>>, 0, text)

EvRead(line) == Ev("read", <<>>, <<>>, 0, line)

EvClose == Ev("close", <<>>, <<>>, 0, <<>>)

\* the lines read from stdin so far
Input == LET reads == SelectSeq(events, LAMBDA ev : ev.e = "read")
         IN [i \in 1..Len(reads) |-> reads[i].text]

\* ------------------------------------------------------ command mapping
RECURSIVE GCD(_, _)
GCD(a, b) == IF b = 0 THEN a ELSE GCD(b, a % b)

Abs(n) == IF n < 0 THEN 0 - n ELSE n

\* floor division (//) in place of true division: the result is an int
Div_floor(n, d) == IF n < 0 THEN PyInt(TRUE, NatDigits(0 - (n \div d))) ELSE PyInt(FALSE, NatDigits(n \div d))

\* the float n / d, kept as the reduced ratio
Div(n, d) == PyFloat(n \div GCD(Abs(n), d), d \div GCD(Abs(n), d))

\* float(tok) accepts the token (the tokens of this model carry digits, a sign or letters only)
IsFloatLiteral(tok) == IsIntLiteral(tok)

KV(k, v) == [k |-> k, v |-> v]

Mapped(kind, kw, text) == [kind |-> kind, kw |-> kw, text |-> text]

\* the if/elif chain with a pixel branch that checks the brightness argument but always uses 1.0
LoopMap_fullBrightness(c) ==
    IF c[1] = W_off THEN
        Mapped("send", <<KV("mode", Lit(0)), KV("r", Lit(0)), KV("g", Lit(0)), KV("b", Lit(0))>>, <<>>)
    ELSE IF c[1] = W_blue THEN
        Mapped("send", <<KV("mode", Lit(1)), KV("ledIndex", Lit(0)), KV("r", Lit(0)), KV("g", Lit(0)), KV("b", Div(1, 1))>>, <<>>)
    ELSE IF c[1] = W_red THEN
        Mapped("send", <<KV("mode", Lit(1)), KV("ledIndex", Lit(255)), KV("r", Div(1, 1)), KV("g", Lit(0)), KV("b", Lit(0))>>, <<>>)
    ELSE IF c[1] = W_green /\ Len(c) > 1 THEN
        IF ~IsIntLiteral(c[2]) THEN Mapped("raise", <<>>, <<>>)
        ELSE Mapped("send", <<KV("mode", Lit(1)), KV("ledIndex", int(c[2])), KV("r", Lit(0)), KV("g", Div(1, 1)), KV("b", Lit(0))>>, <<>>)
    ELSE IF c[1] = W_pixel /\ Len(c) > 1 THEN
        IF ~IsIntLiteral(c[2]) THEN Mapped("raise", <<>>, <<>>)
        ELSE IF Len(c) > 2 /\ ~IsFloatLiteral(c[3]) THEN Mapped("raise", <<>>, <<>>)
        ELSE LET brightness == Div(1, 1)
             IN Mapped("send", <<KV("mode", Lit(1)), KV("ledIndex", int(c[2])), KV("r", brightness), KV("g", brightness), KV("b", brightness)>>, <<>>)
    ELSE IF c[1] = W_white THEN
        Mapped("send", <<KV("mode", Lit(2)), KV("r", Div(1, 1)), KV("g", Div(1, 1)), KV("b", Div(1, 1))>>, <<>>)
    ELSE Mapped("skip", <<>>, <<>>)

\* the if/elif chain of the persistent loop for a non-empty, non-quit token list
LoopMap(c) ==
    IF c[1] = W_off THEN
        Mapped("send", <<KV("mode", Lit(0)), KV("r", Lit(0)), KV("g", Lit(0)), KV("b", Lit(0))>>, <<>>)
    ELSE IF c[1] = W_blue THEN
        Mapped("send", <<KV("mode", Lit(1)), KV("ledIndex", Lit(0)), KV("r", Lit(0)), KV("g", Lit(0)), KV("b", Div(1, 1))>>, <<>>)
    ELSE IF c[1] = W_red THEN
        Mapped("send", <<KV("mode", Lit(1)), KV("ledIndex", Lit(255)), KV("r", Div(1, 1)), KV("g", Lit(0)), KV("b", Lit(0))>>, <<>>)
    ELSE IF c[1] = W_green /\ Len(c) > 1 THEN
        IF ~IsIntLiteral(c[2]) THEN Mapped("raise", <<>>, <<>>)
        ELSE Mapped("send", <<KV("mode", Lit(1)), KV("ledIndex", int(c[2])), KV("r", Lit(0)), KV("g", Div(1, 1)), KV("b", Lit(0))>>, <<>>)
    ELSE IF c[1] = W_pixel /\ Len(c) > 1 THEN
        IF ~IsIntLiteral(c[2]) THEN Mapped("raise", <<>>, <<>>)
        ELSE IF Len(c) > 2 /\ ~IsFloatLiteral(c[3]) THEN Mapped("raise", <<>>, <<>>)
        ELSE LET brightness == IF Len(c) > 2 THEN Div(IntValue(int(c[3])), 100) ELSE Div(1, 1)
             IN Mapped("send", <<KV("mode", Lit(1)), KV("ledIndex", int(c[2])), KV("r", brightness), KV("g", brightness), KV("b", brightness)>>, <<>>)
    ELSE IF c[1] = W_white THEN
        Mapped("send", <<KV("mode", Lit(2)), KV("r", Div(1, 1)), KV("g", Div(1, 1)), KV("b", Div(1, 1))>>, <<>>)
    ELSE Mapped("skip", <<>>, <<>>)

\* the if/elif chain of main() for the lowered command c and sys.argv = av (av[1] is the program name)
MainMap(c, av) ==
    IF c = W_off THEN
        Mapped("send", <<KV("mode", Lit(0)), KV("r", Lit(0)), KV("g", Lit(0)), KV("b", Lit(0))>>, T_off)
    ELSE IF c = W_white THEN
        Mapped("send", <<KV("mode", Lit(2)), KV("r", Div(1, 1)), KV("g", Div(1, 1)), KV("b", Div(1, 1))>>, T_white)
    ELSE IF c = W_all /\ Len(av) = 5 THEN
        IF \E i \in 3..5 : ~IsIntLiteral(av[i]) THEN Mapped("raise", <<>>, <<>>)
        ELSE Mapped("send", <<KV("mode", Lit(2)), KV("r", Div(IntValue(int(av[3])), 255)), KV("g", Div(IntValue(int(av[4])), 255)), KV("b", Div(IntValue(int(av[5])), 255))>>,
                    T_all \o av[3] \o <<",">> \o av[4] \o <<",">> \o av[5] \o <<")">>)
    ELSE IF c = W_led /\ Len(av) = 6 THEN
        IF \E i \in 3..6 : ~IsIntLiteral(av[i]) THEN Mapped("raise", <<>>, <<>>)
        ELSE Mapped("send", <<KV("mode", Lit(1)), KV("ledIndex", int(av[3])), KV("r", Div(IntValue(int(av[4])), 255)), KV("g", Div(IntValue(int(av[5])), 255)), KV("b", Div(IntValue(int(av[6])), 255))>>,
                    T_led \o IntRepr(int(av[3])) \o T_rgb \o av[4] \o <<",">> \o av[5] \o <<",">> \o av[6] \o <<")">>)
    ELSE IF c = W_blue THEN
        Mapped("send", <<KV("mode", Lit(1)), KV("ledIndex", Lit(0)), KV("r", Lit(0)), KV("g", Lit(0)), KV("b", Div(1, 1))>>, T_blue)
    ELSE IF c = W_red THEN
        Mapped("send", <<KV("mode", Lit(1)), KV("ledIndex", Lit(255)), KV("r", Div(1, 1)), KV("g", Lit(0)), KV("b", Lit(0))>>, T_red)
    ELSE IF c = W_green /\ Len(av) = 3 THEN
        IF ~IsIntLiteral(av[3]) THEN Mapped("raise", <<>>, <<>>)
        ELSE Mapped("send", <<KV("mode", Lit(1)), KV("ledIndex", int(av[3])), KV("r", Lit(0)), KV("g", Div(1, 1)), KV("b", Lit(0))>>, T_green \o IntRepr(int(av[3])))
    ELSE Mapped("usage", <<>>, <<>>)

\* send_vars raises ValueError instead of sending (the length byte does not fit a byte)
SendRaises(kw) == ~HeaderFits(encode(dumps(kw)))

\* --------------------------------------------------------------- program
EncIdle == [data |-> <<>>, out |-> <<>>, pc |-> "idle"]

Init ==
    /\ variant \in {"oneshot", "persistent"}
    /\ argv \in IF variant = "oneshot" THEN Argvs ELSE {<<Prog>>}
    /\ pc = IF variant = "oneshot" THEN "main" ELSE "open"
    /\ sock = "none"
    /\ response = <<>>
    /\ recvs = 0
    /\ cmd = <<>>
    /\ events = <<>>
    /\ status = "running"
    /\ exc = "none"
    /\ enc = EncIdle

\* an uncaught exception ends the process
Uncaught(name) == /\ exc' = name
                  /\ pc' = "done"
                  /\ status' = "error"

\* main(), lines 48-52: the argument check and the lowered command
MainArgs ==
    /\ pc = "main"
    /\ IF Len(argv) < 2
       THEN /\ events' = Append(events, EvPrint(DOC))
            /\ pc' = "done"
            /\ status' = "ok"
            /\ cmd' = cmd
       ELSE /\ cmd' = lower(argv[2])
            /\ pc' = "open"
            /\ UNCHANGED <<events, status>>
    /\ UNCHANGED <<variant, argv, sock, response, recvs, exc, enc>>

\* connect() announcing READY as soon as the upgrade request is out, before the response is read
ConnectOpen_announce ==
    /\ pc = "open"
    /\ \E tcpOk \in BOOLEAN :
        IF tcpOk
        THEN /\ sock' = "connected"
             /\ events' = events \o <<EvRequest, EvPrint(READY)>>
             /\ pc' = "recv"
             /\ UNCHANGED <<status, exc>>
        ELSE /\ sock' = "created"
             /\ Uncaught("OSError")
             /\ UNCHANGED events
    /\ UNCHANGED <<variant, argv, response, recvs, cmd, enc>>

\* connect(): socket(), sock.connect() and the upgrade request; tcpOk = the TCP connect succeeds
ConnectOpen ==
    /\ pc = "open"
    /\ \E tcpOk \in BOOLEAN :
        IF tcpOk
        THEN /\ sock' = "connected"
             /\ events' = Append(events, EvRequest)
             /\ pc' = "recv"
             /\ UNCHANGED <<status, exc>>
        ELSE /\ sock' = "created"
             /\ Uncaught("OSError")
             /\ UNCHANGED events
    /\ UNCHANGED <<variant, argv, response, recvs, cmd, enc>>

\* connect(): one pass of the read loop. An empty chunk is the end of the stream: the peer has
\* closed (sock = "eof") and every later recv returns b"" again; recvs counts the chunks of data
ConnectRecv ==
    /\ pc = "recv"
    /\ ~Contains(response, Terminator)
    /\ recvs < MaxChunks
    /\ \E chunk \in Chunks :
        /\ sock = "eof" => chunk = <<>>
        /\ response' = response \o chunk
        /\ sock' = IF chunk = <<>> THEN "eof" ELSE sock
        /\ recvs' = IF chunk = <<>> THEN recvs ELSE recvs + 1
    /\ UNCHANGED <<variant, argv, pc, cmd, events, status, exc, enc>>

\* the status check looking at the header block only (the bytes before the terminator)
ConnectCheck_headerOnly ==
    /\ pc = "recv"
    /\ Contains(response, Terminator)
    /\ IF \E i \in 1..Len(response) : /\ Contains(SubSeq(response, 1, i - 1), Status101)
                                       /\ SubSeq(response, i, i + 3) = Terminator
       THEN /\ pc' = "return"
            /\ UNCHANGED <<status, exc>>
       ELSE Uncaught("Exception")
    /\ UNCHANGED <<variant, argv, sock, response, recvs, cmd, events, enc>>

\* connect(): the status check once the read loop has ended
ConnectCheck ==
    /\ pc = "recv"
    /\ Contains(response, Terminator)
    /\ IF Contains(response, Status101)
       THEN /\ pc' = "return"
            /\ UNCHANGED <<status, exc>>
       ELSE Uncaught("Exception")
    /\ UNCHANGED <<variant, argv, sock, response, recvs, cmd, events, enc>>

\* connect() returns to its caller; its locals are gone
ConnectReturn ==
    /\ pc = "return"
    /\ response' = <<>>
    /\ recvs' = 0
    /\ pc' = IF variant = "persistent" THEN "ready" ELSE "try"
    /\ UNCHANGED <<variant, argv, sock, cmd, events, status, exc, enc>>

\* print("READY", flush=True)
Ready ==
    /\ pc = "ready"
    /\ events' = Append(events, EvPrint(READY))
    /\ pc' = "loop"
    /\ UNCHANGED <<variant, argv, sock, response, recvs, cmd, status, exc, enc>>

\* for line in sys.stdin: the next line, tokenized; blank lines continue, quit breaks
LoopRead ==
    /\ pc = "loop"
    /\ Len(Input) < MaxLines
    /\ \E line \in Lines :
        /\ events' = Append(events, EvRead(line))
        /\ cmd' = split(strip(line))
        /\ pc' = IF cmd' = <<>> THEN "loop"
                 ELSE IF cmd'[1] = W_quit THEN "close"
                 ELSE "dispatch"
    /\ UNCHANGED <<variant, argv, sock, response, recvs, status, exc, enc>>

\* end of input ending the process at once, without the sock.close() after the loop
LoopEOF_noClose ==
    /\ pc = "loop"
    /\ pc' = "done"
    /\ status' = "ok"
    /\ UNCHANGED <<variant, argv, sock, response, recvs, cmd, events, exc, enc>>

\* for line in sys.stdin: end of input ends the loop
LoopEOF ==
    /\ pc = "loop"
    /\ pc' = "close"
    /\ UNCHANGED <<variant, argv, sock, response, recvs, cmd, events, status, exc, enc>>

\* the loop body with a send_vars that does not wait after the send
LoopDispatch_noSleep ==
    /\ pc = "dispatch"
    /\ LET m == LoopMap(cmd) IN
        IF m.kind = "raise" \/ (m.kind = "send" /\ SendRaises(m.kw))
        THEN /\ Uncaught("ValueError")
             /\ UNCHANGED events
        ELSE /\ events' = IF m.kind = "send" THEN events \o <<EvFrame(m.kw)>> ELSE events
             /\ pc' = "ack"
             /\ UNCHANGED <<status, exc>>
    /\ UNCHANGED <<variant, argv, sock, response, recvs, cmd, enc>>

\* the loop body with a send_vars whose first mask key byte counts the frames sent before
LoopDispatch_rollingKey ==
    /\ pc = "dispatch"
    /\ LET m == LoopMap(cmd) IN
        IF m.kind = "raise" \/ (m.kind = "send" /\ SendRaises(m.kw))
        THEN /\ Uncaught("ValueError")
             /\ UNCHANGED events
        ELSE /\ events' = IF m.kind = "send"
                          THEN LET sent == Len(SelectSeq(events, LAMBDA ev : ev.e = "frame"))
                                   f == EvFrame(m.kw)
                               IN events \o <<[f EXCEPT !.bytes = [f.bytes EXCEPT ![3] = (18 + sent) % 256]], EvSleep(300)>>
                          ELSE events
             /\ pc' = "ack"
             /\ UNCHANGED <<status, exc>>
    /\ UNCHANGED <<variant, argv, sock, response, recvs, cmd, enc>>

\* the if/elif chain of the loop body, send_vars included
LoopDispatch ==
    /\ pc = "dispatch"
    /\ LET m == LoopMap(cmd) IN
        IF m.kind = "raise" \/ (m.kind = "send" /\ SendRaises(m.kw))
        THEN /\ Uncaught("ValueError")
             /\ UNCHANGED events
        ELSE /\ events' = IF m.kind = "send" THEN events \o <<EvFrame(m.kw), EvSleep(300)>> ELSE events
             /\ pc' = "ack"
             /\ UNCHANGED <<status, exc>>
    /\ UNCHANGED <<variant, argv, sock, response, recvs, cmd, enc>>

\* the acknowledgment printed only when the line sent a frame
LoopAck_afterSendOnly ==
    /\ pc = "ack"
    /\ events' = IF events[Len(events)].e = "sleep" THEN Append(events, EvPrint(OK)) ELSE events
    /\ pc' = "loop"
    /\ UNCHANGED <<variant, argv, sock, response, recvs, cmd, status, exc, enc>>

\* print("OK", flush=True)
LoopAck ==
    /\ pc = "ack"
    /\ events' = Append(events, EvPrint(OK))
    /\ pc' = "loop"
    /\ UNCHANGED <<variant, argv, sock, response, recvs, cmd, status, exc, enc>>

\* the end of the persistent session with an off frame written after sock.close()
LoopClose_farewell ==
    /\ pc = "close"
    /\ sock' = "closed"
    /\ events' = events \o <<EvClose, EvFrame(LoopMap(<<W_off>>).kw)>>
    /\ pc' = "done"
    /\ status' = "ok"
    /\ UNCHANGED <<variant, argv, response, recvs, cmd, exc, enc>>

\* sock.close() after the loop, then the module ends
LoopClose ==
    /\ pc = "close"
    /\ sock' = "closed"
    /\ events' = Append(events, EvClose)
    /\ pc' = "done"
    /\ status' = "ok"
    /\ UNCHANGED <<variant, argv, response, recvs, cmd, exc, enc>>

\* the body of the try statement with a send_vars that returns right after sock.send
MainTry_noWait ==
    /\ pc = "try"
    /\ LET m == MainMap(cmd, argv) IN
        /\ pc' = "finally"
        /\ IF m.kind = "raise" \/ (m.kind = "send" /\ SendRaises(m.kw))
           THEN /\ exc' = "ValueError"
                /\ UNCHANGED events
           ELSE /\ events' = IF m.kind = "send"
                             THEN events \o <<EvFrame(m.kw), EvPrint(m.text)>>
                             ELSE Append(events, EvPrint(DOC))
                /\ UNCHANGED exc
    /\ UNCHANGED <<variant, argv, sock, response, recvs, cmd, status, enc>>

\* main(): the body of the try statement
MainTry ==
    /\ pc = "try"
    /\ LET m == MainMap(cmd, argv) IN
        /\ pc' = "finally"
        /\ IF m.kind = "raise" \/ (m.kind = "send" /\ SendRaises(m.kw))
           THEN /\ exc' = "ValueError"
                /\ UNCHANGED events
           ELSE /\ events' = IF m.kind = "send"
                             THEN events \o <<EvFrame(m.kw), EvSleep(500), EvPrint(m.text)>>
                             ELSE Append(events, EvPrint(DOC))
                /\ UNCHANGED exc
    /\ UNCHANGED <<variant, argv, sock, response, recvs, cmd, status, enc>>

\* main(): the finally clause, then return or the re-raised exception
MainFinally ==
    /\ pc = "finally"
    /\ sock' = "closed"
    /\ events' = Append(events, EvClose)
    /\ pc' = "done"
    /\ status' = IF exc = "none" THEN "ok" ELSE "error"
    /\ UNCHANGED <<variant, argv, response, recvs, cmd, exc, enc>>

Next ==
    \/ MainArgs
    \/ ConnectOpen
    \/ ConnectRecv
    \/ ConnectCheck
    \/ ConnectReturn
    \/ Ready
    \/ LoopRead
    \/ LoopEOF
    \/ LoopDispatch
    \/ LoopAck
    \/ LoopClose
    \/ MainTry
    \/ MainFinally

Spec == Init /\ [][Next]_vars

\* the process is the only thread and is always scheduled: while a statement can change the state,
\* one is eventually executed
FairSpec == Init /\ [][Next]_vars /\ WF_vars(Next)

\* ------------------------------------------------- the frame encoder alone
\* byte patterns of the payloads handed to the encoder: byte i is (first + i * step) mod 256
Patterns == {<<0, 1>>, <<255, 0>>, <<123, 7>>}

PatternBytes(n, p) == [i \in 1..n |-> (p[1] + (i - 1) * p[2]) % 256]

EncInit ==
    /\ variant = "encoder"
    /\ argv = <<>>
    /\ pc = "encoder"
    /\ sock = "connected"
    /\ response = <<>>
    /\ recvs = 0
    /\ cmd = <<>>
    /\ events = <<>>
    /\ status = "running"
    /\ exc = "none"
    /\ \E n \in 0..MaxPayload, p \in Patterns : enc = [data |-> PatternBytes(n, p), out |-> <<>>, pc |-> "start"]

\* send_vars from the encoded payload on: header, masked, sock.send
Encode ==
    /\ enc.pc = "start"
    /\ enc' = IF HeaderFits(enc.data)
              THEN [enc EXCEPT !.out = FrameBytes(enc.data), !.pc = "sent"]
              ELSE [enc EXCEPT !.pc = "raised"]
    /\ UNCHANGED <<variant, argv, pc, sock, response, recvs, cmd, events, status, exc>>

EncNext == Encode

EncSpec == EncInit /\ [][EncNext]_vars

\* --------------------------------------------- the pixel branch of the loop
\* indices of the pixel lines
PixelIdxs == {<<"0">>, <<"1", "0">>, <<"2", "5", "5">>}

\* the lines pixel idx and pixel idx p for every brightness p up to the bound
PixelLines ==
    {Sp(<<W_pixel, idx>>) : idx \in PixelIdxs} \cup
    {Sp(<<W_pixel, pr[1], IntRepr(Lit(pr[2]))>>) : pr \in PixelIdxs \X (0..MaxBrightness)}

\* a session that has printed READY and read a pixel line as its first line
PixelInit ==
    /\ variant = "persistent"
    /\ argv = <<Prog>>
    /\ pc = "dispatch"
    /\ sock = "connected"
    /\ response = <<>>
    /\ recvs = 0
    /\ \E line \in PixelLines :
        /\ cmd = split(strip(line))
        /\ events = <<EvRequest, EvPrint(READY), EvRead(line)>>
    /\ status = "running"
    /\ exc = "none"
    /\ enc = EncIdle

PixelNext ==
    \/ LoopDispatch
    \/ LoopAck

PixelSpec == PixelInit /\ [][PixelNext]_vars

\* ------------------------------------------------------------ properties
\* the frames written to the socket so far
Frames == SelectSeq(events, LAMBDA ev : ev.e = "frame")

\* the lines printed so far
Prints == LET ps == SelectSeq(events, LAMBDA ev : ev.e = "print")
          IN [i \in 1..Len(ps) |-> ps[i].text]

\* the number of payload bytes that follow the 6 header bytes of a frame
PayloadLen(bytes) == Len(bytes) - 6

\* the low 7 bits of the second header byte
LenField(bytes) == bytes[2] % 128

\* the lines read so far, each with what the process did for it: cmd is the tokenized line,
\* seg the events after its read up to the next read (the final close left out)
RECURSIVE Turns(_)
Turns(evs) ==
    IF evs = <<>> THEN <<>>
    ELSE LET last == evs[Len(evs)]
             before == Turns(SubSeq(evs, 1, Len(evs) - 1))
         IN IF last.e = "read" THEN Append(before, [cmd |-> split(strip(last.text)), seg |-> <<>>])
            ELSE IF before = <<>> \/ last.e = "close" THEN before
            ELSE [before EXCEPT ![Len(before)].seg = Append(@, last)]

\* the loop is through with the i-th of n lines (or the process has ended)
LineDone(i, n) == i < n \/ pc \in {"loop", "close", "done"}

\* the command names of the table in section 4.3 of the specification
TableNames == {W_off, W_white, W_all, W_led, W_blue, W_red, W_green, W_pixel}

\* the arity of the table
ArityOK(c) ==
    CASE c[1] \in {W_off, W_white, W_blue, W_red} -> Len(c) = 1
      [] c[1] = W_all -> Len(c) = 4
      [] c[1] = W_led -> Len(c) = 5
      [] c[1] = W_green -> Len(c) = 2
      [] c[1] = W_pixel -> Len(c) \in {2, 3}
      [] OTHER -> FALSE

\* the ratio n / d in lowest terms, as a float value
Ratio(n, d) ==
    LET g == CHOOSE g \in 1..d : /\ n % g = 0 /\ d % g = 0
                                 /\ \A h \in (g + 1)..d : ~(n % h = 0 /\ d % h = 0)
    IN [t |-> "float", neg |-> FALSE, digs |-> <<>>, num |-> n \div g, den |-> d \div g]

Int0(n) == [t |-> "int", neg |-> FALSE, digs |-> NatDigits(n), num |-> 0, den |-> 1]

Field(k, v) == [k |-> k, v |-> v]

\* the record of the table for a command with the right arity and numeric arguments
TableRecord(c) ==
    CASE c[1] = W_off -> <<Field("mode", Int0(0)), Field("r", Int0(0)), Field("g", Int0(0)), Field("b", Int0(0))>>
      [] c[1] = W_white -> <<Field("mode", Int0(2)), Field("r", Ratio(1, 1)), Field("g", Ratio(1, 1)), Field("b", Ratio(1, 1))>>
      [] c[1] = W_all -> <<Field("mode", Int0(2)), Field("r", Ratio(IntValue(int(c[2])), 255)),
                           Field("g", Ratio(IntValue(int(c[3])), 255)), Field("b", Ratio(IntValue(int(c[4])), 255))>>
      [] c[1] = W_led -> <<Field("mode", Int0(1)), Field("ledIndex", int(c[2])), Field("r", Ratio(IntValue(int(c[3])), 255)),
                           Field("g", Ratio(IntValue(int(c[4])), 255)), Field("b", Ratio(IntValue(int(c[5])), 255))>>
      [] c[1] = W_blue -> <<Field("mode", Int0(1)), Field("ledIndex", Int0(0)), Field("r", Int0(0)), Field("g", Int0(0)), Field("b", Ratio(1, 1))>>
      [] c[1] = W_red -> <<Field("mode", Int0(1)), Field("ledIndex", Int0(255)), Field("r", Ratio(1, 1)), Field("g", Int0(0)), Field("b", Int0(0))>>
      [] c[1] = W_green -> <<Field("mode", Int0(1)), Field("ledIndex", int(c[2])), Field("r", Int0(0)), Field("g", Ratio(1, 1)), Field("b", Int0(0))>>
      [] c[1] = W_pixel -> LET p == IF Len(c) = 3 THEN Ratio(IntValue(int(c[3])), 100) ELSE Ratio(1, 1)
                           IN <<Field("mode", Int0(1)), Field("ledIndex", int(c[2])), Field("r", p), Field("g", p), Field("b", p)>>

\* the numeric arguments are within the ranges of the table: index >= 0, channels 0..255, brightness 0..100
RangesOK(c) ==
    /\ c[1] \in {W_led, W_green, W_pixel} => ~int(c[2]).neg
    /\ c[1] = W_all => \A i \in 2..4 : Len(c[i]) <= 4 /\ IntValue(int(c[i])) \in 0..255
    /\ c[1] = W_led => \A i \in 3..5 : Len(c[i]) <= 4 /\ IntValue(int(c[i])) \in 0..255
    /\ (c[1] = W_pixel /\ Len(c) = 3) => Len(c[3]) <= 4 /\ IntValue(int(c[3])) \in 0..100

\* a well-formed command of the table whose record fits the single 125-byte frame of the protocol
WellFormed(c) ==
    /\ c # <<>>
    /\ c[1] \in TableNames
    /\ ArityOK(c)
    /\ \A i \in 2..Len(c) : IsIntLiteral(c[i])
    /\ RangesOK(c)
    /\ Len(dumps(TableRecord(c))) <= 125

Unrecognized(c) == c # <<>> /\ c[1] \notin TableNames \cup {W_quit}

IsQuit(c) == c # <<>> /\ c[1] = W_quit

GoodLine(c) == WellFormed(c) \/ Unrecognized(c)

OKs(n) == [i \in 1..n |-> OK]

\* C1: a script of N well-formed or unrecognized lines followed by quit gives READY, then N times OK,
\* nothing for quit, and the loop ends; no such line ends the process with an error
C1_LoopParity ==
    LET T == Turns(events) IN
    ( /\ variant = "persistent"
      /\ Len(Prints) >= 1
      /\ \A i \in 1..Len(T) : GoodLine(T[i].cmd) \/ (i = Len(T) /\ IsQuit(T[i].cmd)) )
    => LET n == Cardinality({i \in 1..Len(T) : ~IsQuit(T[i].cmd)}) IN
        /\ exc = "none"
        /\ pc \in {"loop", "dispatch", "ack", "close", "done"}
        /\ pc \in {"loop", "close", "done"} => Prints = <<READY>> \o OKs(n)
        /\ pc \in {"dispatch", "ack"} => Prints = <<READY>> \o OKs(n - 1)
        /\ (Len(T) >= 1 /\ IsQuit(T[Len(T)].cmd)) => pc \in {"close", "done"}
        /\ pc = "done" => status = "ok"

C1_Witness ==
    LET T == Turns(events) IN
    /\ variant = "persistent" /\ pc = "done" /\ status = "ok"
    /\ Len(T) = 3
    /\ Unrecognized(T[1].cmd) /\ WellFormed(T[2].cmd) /\ IsQuit(T[3].cmd)
    /\ Prints = <<READY, OK, OK>>

\* a known command with a non-numeric argument
Malformed(c) == /\ c # <<>>
                /\ c[1] \in {W_all, W_led, W_green, W_pixel}
                /\ \E i \in 2..Len(c) : ~IsIntLiteral(c[i])

\* C2: a line with a known command and a non-numeric argument is still answered with OK,
\* and the process does not end on it
C2_MalformedAcked ==
    LET T == Turns(events) IN
    variant = "persistent" =>
        \A i \in 1..Len(T) :
            (Malformed(T[i].cmd) /\ LineDone(i, Len(T))) =>
                /\ \E k \in 1..Len(T[i].seg) : T[i].seg[k].e = "print" /\ T[i].seg[k].text = OK
                /\ status # "error"

\* C3: a record whose JSON is longer than 125 bytes is never written (the send fails instead),
\* and every frame written has a 7-bit length field equal to the number of payload bytes after it
C3_OversizedFailsExplicitly ==
    \A i \in 1..Len(Frames) :
        /\ PayloadLen(Frames[i].bytes) <= 125
        /\ LenField(Frames[i].bytes) = PayloadLen(Frames[i].bytes)

\* C4: for a payload of length 0..125 the encoder writes 0x81, 0x80 + len, the fixed key and len
\* bytes, and XOR-ing byte i of that tail with key[i mod 4] gives back payload byte i
C4_FrameRoundTrip ==
    (enc.pc # "start" /\ Len(enc.data) <= 125) =>
        /\ enc.pc = "sent"
        /\ Len(enc.out) = 6 + Len(enc.data)
        /\ SubSeq(enc.out, 1, 6) = <<129, 128 + Len(enc.data), 18, 52, 86, 120>>
        /\ \A i \in 1..Len(enc.data) :
              BitXor(enc.out[6 + i], <<18, 52, 86, 120>>[((i - 1) % 4) + 1]) = enc.data[i]

C4_Witness == enc.pc = "sent" /\ Len(enc.data) = 125 /\ enc.data[125] # 0

\* the response holds the bytes 1 0 1 somewhere
Has101(resp) == \E i \in 1..(Len(resp) - 2) : resp[i] = 49 /\ resp[i + 1] = 48 /\ resp[i + 2] = 49

\* the first position of CR LF CR LF in the response (0 when absent)
TerminatorAt(resp) ==
    LET at(i) == resp[i] = 13 /\ resp[i + 1] = 10 /\ resp[i + 2] = 13 /\ resp[i + 3] = 10
    IN IF \E i \in 1..(Len(resp) - 3) : at(i)
       THEN CHOOSE i \in 1..(Len(resp) - 3) : at(i) /\ \A j \in 1..(i - 1) : ~at(j)
       ELSE 0

\* the bytes 1 0 1 occur before the header terminator
Has101BeforeTerminator(resp) ==
    /\ TerminatorAt(resp) > 0
    /\ Has101(SubSeq(resp, 1, TerminatorAt(resp) - 1))

\* C5 as stated: connect succeeds exactly when 101 occurs before the header terminator
C5_AcceptIffBeforeTerminator ==
    /\ pc = "return" => Has101BeforeTerminator(response)
    /\ exc = "Exception" => ~Has101BeforeTerminator(response)

\* C5 amended: connect decides once the terminator has arrived and succeeds exactly when 101 occurs
\* anywhere in the bytes received by then, before or after the terminator
C5_AcceptIffAnywhere ==
    /\ pc = "return" => (TerminatorAt(response) > 0 /\ Has101(response))
    /\ exc = "Exception" => (TerminatorAt(response) > 0 /\ ~Has101(response))

C5_Witness ==
    /\ pc = "return"
    /\ Has101(response)
    /\ ~Has101BeforeTerminator(response)

\* C6: a process that ends after the TCP connection was made (normally, on a rejected handshake,
\* on an exception in dispatch or in a send) has closed the socket
C6_SocketClosedOnExit == (pc = "done" /\ sock # "none" /\ exc # "OSError") => sock = "closed"

\* the one-shot run got through connect and ended
OneShotRan == variant = "oneshot" /\ pc = "done" /\ exc \notin {"OSError", "Exception"} /\ Len(argv) >= 2

\* the command line does not map: unknown name, or all, led or green with a wrong number of
\* arguments or a non-numeric argument
MapFails(c) ==
    LET lc == <<lower(c[1])>> \o Tail(c) IN
        \/ lc[1] \notin TableNames
        \/ lc[1] \in {W_all, W_led, W_green} /\ ~ArityOK(lc)
        \/ lc[1] \in {W_all, W_led, W_green} /\ \E i \in 2..Len(lc) : ~IsIntLiteral(lc[i])

\* C7: a one-shot command that does not map prints the usage text, sends no frame and ends without error
C7_MappingFailuresClean ==
    (OneShotRan /\ MapFails(Tail(argv))) =>
        /\ Prints = <<DOC>>
        /\ Frames = <<>>
        /\ status = "ok"

\* a channel value within [0, 1]
ChannelOK(v) == IF v.t = "int" THEN ~v.neg /\ v.digs \in {<<0>>, <<1>>}
                ELSE 0 <= v.num /\ v.num <= v.den

\* C8: every frame written carries mode in {0,1,2}, r, g, b within [0,1] and a ledIndex >= 0
C8_RecordInvariant ==
    \A i \in 1..Len(Frames) : \A j \in 1..Len(Frames[i].rec) :
        LET p == Frames[i].rec[j] IN
            /\ p.k = "mode" => (p.v.t = "int" /\ ~p.v.neg /\ p.v.digs \in {<<0>>, <<1>>, <<2>>})
            /\ p.k \in {"r", "g", "b"} => ChannelOK(p.v)
            /\ p.k = "ledIndex" => (p.v.t = "int" /\ ~p.v.neg)

\* what the loop did for a line is: one frame with the record rec, the 0.3 s wait, then OK
SentThenAcked(seg, rec) ==
    /\ Len(seg) = 3
    /\ seg[1].e = "frame" /\ seg[1].rec = rec
    /\ seg[2].e = "sleep" /\ seg[2].ms = 300
    /\ seg[3].e = "print" /\ seg[3].text = OK

\* what the loop did for a line is: OK and nothing else
AckedOnly(seg) == Len(seg) = 1 /\ seg[1].e = "print" /\ seg[1].text = OK

\* C9 as stated: every well-formed command of the table sends exactly one frame with its record,
\* then waits, then prints OK
C9_LoopDispatchesTable ==
    LET T == Turns(events) IN
    variant = "persistent" =>
        \A i \in 1..Len(T) :
            (WellFormed(T[i].cmd) /\ LineDone(i, Len(T))) => SentThenAcked(T[i].seg, TableRecord(T[i].cmd))

\* C9 amended: off, white, blue, red, green idx and pixel idx [brightness] send exactly one frame
\* with the record of the table, then wait 0.3 s, then print OK; all and led send nothing and
\* are answered with OK alone
C9_LoopDispatchesItsCommands ==
    LET T == Turns(events) IN
    variant = "persistent" =>
        \A i \in 1..Len(T) :
            (WellFormed(T[i].cmd) /\ LineDone(i, Len(T))) =>
                IF T[i].cmd[1] \in {W_all, W_led} THEN AckedOnly(T[i].seg)
                ELSE SentThenAcked(T[i].seg, TableRecord(T[i].cmd))

C9_Witness ==
    LET T == Turns(events) IN
    /\ variant = "persistent" /\ pc = "loop"
    /\ Len(T) = 2
    /\ WellFormed(T[1].cmd) /\ T[1].cmd[1] = W_pixel /\ Len(T[1].cmd) = 3
    /\ WellFormed(T[2].cmd) /\ T[2].cmd[1] = W_all
    /\ SentThenAcked(T[1].seg, TableRecord(T[1].cmd))
    /\ AckedOnly(T[2].seg)

\* the one-shot run sent one frame with the record and printed a confirmation line
SentAndConfirmed(rec) ==
    /\ Len(Frames) = 1
    /\ Frames[1].rec = rec
    /\ Len(Prints) = 1
    /\ Prints[1] # DOC
    /\ status = "ok"

\* C10 as stated: every well-formed command of the table, pixel included, sends one frame with its
\* record and prints a confirmation line
C10_CliSupportsTable ==
    (OneShotRan /\ WellFormed(Tail(argv))) => SentAndConfirmed(TableRecord(Tail(argv)))

\* C10 amended: off, white, all, led, blue, red and green idx send one frame with the record of the
\* table and print a confirmation line; pixel prints the usage text and sends no frame
C10_CliSupportsItsCommands ==
    (OneShotRan /\ WellFormed(Tail(argv))) =>
        IF argv[2] = W_pixel THEN Frames = <<>> /\ Prints = <<DOC>> /\ status = "ok"
        ELSE SentAndConfirmed(TableRecord(Tail(argv)))

C10_Witness ==
    /\ OneShotRan
    /\ argv[2] = W_all
    /\ WellFormed(Tail(argv))
    /\ SentAndConfirmed(TableRecord(Tail(argv)))
    /\ \E j \in 1..Len(Frames[1].rec) : Frames[1].rec[j].v.t = "float" /\ Frames[1].rec[j].v.den = 255

\* the command line of the one-shot run as main() compares it: the name lowered, then the arguments
CliCommand == <<lower(argv[2])>> \o SubSeq(argv, 3, Len(argv))

\* the command names of the usage text of the one-shot variant
CliNames == {W_off, W_white, W_all, W_led, W_blue, W_red, W_green}

\* a one-shot run with a command the variant recognizes, well-formed by the table
CliGood ==
    /\ variant = "oneshot"
    /\ Len(argv) >= 2
    /\ CliCommand[1] \in CliNames
    /\ WellFormed(CliCommand)

\* the events of a complete one-shot run, in order
OneShotOrder == <<"request", "frame", "sleep", "print", "close">>

\* C11: a one-shot run with a recognized, well-formed command does, in this order: the upgrade
\* request (accepted before anything is sent), exactly one frame, the 0.5 s wait, the close, the
\* exit; the socket is not closed before the wait is over and no second frame is ever sent
C11_OneShotOrdering ==
    CliGood =>
        /\ Len(events) <= Len(OneShotOrder)
        /\ \A k \in 1..Len(events) : events[k].e = OneShotOrder[k]
        /\ \A k \in 1..Len(events) : events[k].e = "sleep" => events[k].ms = 500
        /\ Len(Frames) <= 1
        /\ (pc \in {"main", "open", "recv", "return"} \/ exc \in {"OSError", "Exception"}) => Len(events) <= 1
        /\ sock = "closed" <=> (Len(events) = 5)
        /\ sock = "closed" => pc = "done"
        /\ (pc = "done" /\ exc \notin {"OSError", "Exception"}) => (Len(events) = 5 /\ status = "ok" /\ exc = "none")

C11_Witness ==
    /\ CliGood
    /\ argv[2] = W_OFF
    /\ pc = "done" /\ status = "ok" /\ sock = "closed"
    /\ Len(events) = 5
    /\ events[2].e = "frame" /\ events[3] = EvSleep(500) /\ events[5] = EvClose

\* how many of the events so far are equal to ev
Count(ev) == Cardinality({k \in 1..Len(events) : events[k] = ev})

\* connect has not returned: it is still running, or it raised (TCP connect failed, response rejected)
NotConnected == pc \in {"main", "open", "recv", "return"} \/ exc \in {"OSError", "Exception"}

\* C12: the persistent variant prints READY exactly once and only after connect accepted the
\* response; when the TCP connect fails or the response is rejected the process ends with no READY,
\* no OK, no frame and no second connection attempt
C12_ReadyAfterHandshake ==
    variant = "persistent" =>
        /\ Count(EvPrint(READY)) <= 1
        /\ Count(EvRequest) <= 1
        /\ pc = "return" => Has101(response)
        /\ (NotConnected \/ pc = "ready") => (Prints = <<>> /\ Frames = <<>>)
        /\ exc = "OSError" => (pc = "done" /\ status = "error" /\ events = <<>>)
        /\ exc = "Exception" => (pc = "done" /\ status = "error" /\ events = <<EvRequest>> /\ ~Has101(response))
        /\ ~(NotConnected \/ pc = "ready") =>
              /\ Len(events) >= 2
              /\ events[1] = EvRequest
              /\ events[2] = EvPrint(READY)
              /\ Count(EvPrint(READY)) = 1

C12_Witness ==
    /\ variant = "persistent"
    /\ pc = "done" /\ exc = "Exception" /\ status = "error"
    /\ events = <<EvRequest>>
    /\ response # <<>>

\* a known command name with numeric arguments whose count differs from the arity of the table
WrongArity(c) ==
    /\ c # <<>>
    /\ c[1] \in TableNames
    /\ ~ArityOK(c)
    /\ \A i \in 2..Len(c) : IsIntLiteral(c[i])

\* C13: a line of the persistent loop with a known command name and a wrong number of arguments
\* sends no frame and is answered with OK alone
C13_WrongArityIgnored ==
    LET T == Turns(events) IN
    variant = "persistent" =>
        \A i \in 1..Len(T) :
            (WrongArity(T[i].cmd) /\ LineDone(i, Len(T))) => AckedOnly(T[i].seg)

\* the bytes of the frames written for one line
SentBytes(seg) == LET fs == SelectSeq(seg, LAMBDA ev : ev.e = "frame")
                  IN [k \in 1..Len(fs) |-> fs[k].bytes]

\* C14: two lines of one persistent session that carry the same command write byte-identical frames,
\* whatever was sent before or in between
C14_SameCommandSameFrame ==
    LET T == Turns(events) IN
    variant = "persistent" =>
        \A i, j \in 1..Len(T) :
            (i < j /\ T[i].cmd = T[j].cmd /\ LineDone(j, Len(T))) => SentBytes(T[i].seg) = SentBytes(T[j].seg)

C14_Witness ==
    LET T == Turns(events) IN
    /\ variant = "persistent" /\ pc = "loop"
    /\ Len(T) = 3
    /\ T[1].cmd = <<W_off>> /\ T[2].cmd = <<W_blue>> /\ T[3].cmd = <<W_off>>
    /\ Len(Frames) = 3
    /\ Frames[1].bytes = Frames[3].bytes
    /\ Frames[2].bytes # Frames[1].bytes

\* the loop has ended without an exception: the socket is closed and sock.close() was the last thing done
EndedClosed ==
    (variant = "persistent" /\ pc = "done" /\ exc = "none") =>
        /\ sock = "closed"
        /\ status = "ok"
        /\ events[Len(events)] = EvClose
        /\ Count(EvClose) = 1

\* a step that ends the loop, by end of input or by a quit line: it goes to the close, writes no
\* frame and prints nothing; the log is unchanged (end of input) or longer by the quit line read
EndsLoopQuietly ==
    (variant = "persistent" /\ pc = "loop" /\ pc' \notin {"loop", "dispatch"}) =>
        /\ pc' = "close"
        /\ sock' = sock /\ status' = status /\ exc' = exc
        /\ \/ events' = events
           \/ /\ Len(events') = Len(events) + 1
              /\ SubSeq(events', 1, Len(events)) = events
              /\ events'[Len(events')].e = "read"
              /\ IsQuit(split(strip(events'[Len(events')].text)))

\* the step after the loop has ended: sock.close() and the end of the process, nothing else
ClosesThenEnds ==
    (variant = "persistent" /\ pc = "close") =>
        /\ events' = Append(events, EvClose)
        /\ sock' = "closed"
        /\ pc' = "done"
        /\ status' = "ok"

\* C15: end of input ends the persistent session the way a quit line does: from the same prefix
\* both go to the close with no further frame and no further OK, the socket is closed and the
\* process ends
C15_EofLikeQuit == []EndedClosed /\ [][EndsLoopQuietly /\ ClosesThenEnds]_vars

C15_Witness ==
    /\ variant = "persistent" /\ pc = "done" /\ status = "ok" /\ sock = "closed"
    /\ Len(Frames) = 2
    /\ Len(events) >= 3
    /\ events[Len(events)] = EvClose
    /\ events[Len(events) - 1] = EvPrint(OK)
    /\ \A k \in 1..Len(events) : events[k].e = "read" => ~IsQuit(split(strip(events[k].text)))

\* C16: a line pixel idx sends mode=1, ledIndex=idx and r=g=b=1 (brightness 100 by default), a line
\* pixel idx p with an integer p in 0..100 sends mode=1, ledIndex=idx and r=g=b=p/100; the three
\* channels of a pixel frame are equal
C16_PixelBrightness ==
    LET T == Turns(events) IN
    \A i \in 1..Len(T) :
        LET c == T[i].cmd
            fs == SelectSeq(T[i].seg, LAMBDA ev : ev.e = "frame")
        IN  /\ ( /\ c # <<>> /\ c[1] = W_pixel /\ Len(c) \in {2, 3}
                 /\ \A k \in 2..Len(c) : IsIntLiteral(c[k]) /\ ~int(c[k]).neg
                 /\ Len(c) = 3 => (Len(c[3]) <= 3 /\ IntValue(int(c[3])) \in 0..100)
                 /\ LineDone(i, Len(T)) )
               => LET p == IF Len(c) = 3 THEN IntValue(int(c[3])) ELSE 100
                  IN /\ Len(fs) = 1
                     /\ fs[1].rec = <<Field("mode", Int0(1)), Field("ledIndex", int(c[2])),
                                      Field("r", Ratio(p, 100)), Field("g", Ratio(p, 100)), Field("b", Ratio(p, 100))>>
            /\ (c # <<>> /\ c[1] = W_pixel) =>
                  \A k \in 1..Len(fs) : fs[k].rec[3].v = fs[k].rec[4].v /\ fs[k].rec[4].v = fs[k].rec[5].v

C16_Witness ==
    /\ variant = "persistent" /\ pc = "loop"
    /\ cmd = <<W_pixel, <<"2", "5", "5">>, <<"3", "7">>>>
    /\ Len(Frames) = 1
    /\ Frames[1].rec[2].v = Int0(255)
    /\ Frames[1].rec[3].v.num = 37 /\ Frames[1].rec[3].v.den = 100
    /\ Prints = <<READY, OK>>

\* C17: when the server has closed the connection before the response was complete, so that recv
\* returns zero bytes from then on, connect eventually raises and the process ends
C17_ClosedStreamRaises == (pc = "recv" /\ sock = "eof") ~> (pc = "done" /\ exc # "none")

\* C18: an empty or whitespace-only line of the persistent loop is answered with exactly one OK
\* and sends no frame
C18_BlankLinesAcked ==
    LET T == Turns(events) IN
    variant = "persistent" =>
        \A i \in 1..Len(T) :
            (T[i].cmd = <<>> /\ LineDone(i, Len(T))) => AckedOnly(T[i].seg)

\* where the frames of the log lie: none while connect has not returned or on a socket that was
\* never upgraded, none after the close, none for a quit line
SendsInSession ==
    LET T == Turns(events) IN
    /\ (NotConnected \/ sock \in {"none", "created", "eof"}) => Frames = <<>>
    /\ \A k \in 1..Len(events) : events[k].e = "close" => (k = Len(events) /\ sock = "closed")
    /\ sock = "closed" => (events # <<>> /\ events[Len(events)].e = "close")
    /\ \A i \in 1..Len(T) : IsQuit(T[i].cmd) => T[i].seg = <<>>

\* a step that writes a frame: the socket is connected before and after it, the step is the body
\* of the try statement or of the loop, and neither a close nor a quit line came before
SendsOnOpenSocket ==
    (Len(Frames') > Len(Frames)) =>
        /\ sock = "connected" /\ sock' = "connected"
        /\ pc \in {"try", "dispatch"}
        /\ \A k \in 1..Len(events) :
              /\ events[k].e # "close"
              /\ events[k].e = "read" => ~IsQuit(split(strip(events[k].text)))

\* C19: in both variants a frame is written only after connect accepted the handshake and before
\* the socket is closed: never before the handshake is complete, after the close, or after quit
\* or end of input
C19_SendsOnlyWhileOpen == []SendsInSession /\ [][SendsOnOpenSocket]_vars

C19_Witness ==
    LET T == Turns(events) IN
    /\ variant = "persistent" /\ pc = "done" /\ sock = "closed"
    /\ Len(T) = 3 /\ IsQuit(T[3].cmd)
    /\ Len(Frames) = 2
    /\ events[1] = EvRequest /\ events[2] = EvPrint(READY)
    /\ events[Len(events)] = EvClose /\ events[Len(events) - 1].e = "read"

====
